---- MODULE Spec2Model ----
(* A model of dns-check-go (src/main.go): the worker pool of runDNSTests,   *)
(* the progress monitor showProgress, the probe testDNS and the aggregation *)
(* calculateSummary.  Go strings that the program compares with < are       *)
(* modelled as sequences of character codes compared lexicographically;     *)
(* strings that are only copied or tested for equality are TLA+ strings.    *)
EXTENDS Integers, Sequences, FiniteSets, Bags, TLC

(***************************************************************************)
(* Bounds of the model.                                                    *)
(***************************************************************************)
MaxServers == 3
MaxDomains == 2
MaxWorkers == 2
MaxJobs == 2
MaxResults == 3
MaxResponseTime == 2
MaxElapsed == 7

(***************************************************************************)
(* Program constants.                                                      *)
(***************************************************************************)
ProgressBarWidth == 40
DefaultTimeout == 15

CategoryGeneral == "General"
CategoryAdServer == "Ad-server"
CategoryOther == "Other"
CategoryAdult == "Adult"

(***************************************************************************)
(* Input data.  "2" < "12" numerically but "12" < "2" as Go strings; the   *)
(* address <<1, 2>> is listed twice with different descriptions, as        *)
(* 46.20.159.27 is in defaultDNSServers.                                   *)
(***************************************************************************)
DNSServer(ip, description) == [IP |-> ip, Description |-> description]

DomainCategory(domain, category) == [Domain |-> domain, Category |-> category]

ServerPool ==
    << DNSServer(<<1, 2>>, "TR - Dora Telekom"),
       DNSServer(<<1, 2>>, "TR - Dora Telekom Secondary"),
       DNSServer(<<2>>, "Alternate DNS") >>

DomainPool ==
    << DomainCategory(<<2>>, CategoryGeneral),
       DomainCategory(<<1>>, CategoryAdServer) >>

(* The lists of at most n entries taken from a pool, in the pool's order or *)
(* in the reverse of it.                                                    *)
Reverse(q) == [k \in 1..Len(q) |-> q[Len(q) + 1 - k]]

Pick(q, idx) ==
    [k \in 1..Cardinality(idx) |->
        q[CHOOSE i \in idx : Cardinality({ j \in idx : j < i }) = k - 1]]

Excerpts(pool, n) ==
    { Pick(q, idx) : q \in {pool, Reverse(pool)},
                     idx \in { x \in SUBSET (1..Len(pool)) : Cardinality(x) <= n } }

(***************************************************************************)
(* Go's string comparison: bytewise lexicographic.                         *)
(***************************************************************************)
RECURSIVE StrLess(_, _)
StrLess(a, b) ==
    IF b = <<>> THEN FALSE
    ELSE IF a = <<>> THEN TRUE
    ELSE IF Head(a) # Head(b) THEN Head(a) < Head(b)
    ELSE StrLess(Tail(a), Tail(b))

(***************************************************************************)
(* testDNS: one exchange with the server.  The exchange's outcome is the   *)
(* environment's: an error, a nil response, or a list of answer records.   *)
(***************************************************************************)
NoError == ""

RR(type, addr) == [Type |-> type, A |-> addr]

Response(err, isNil, answer) == [Err |-> err, Nil |-> isNil, Answer |-> answer]

RECURSIVE FirstA(_)
FirstA(answer) ==
    IF answer = <<>> THEN ""
    ELSE IF Head(answer).Type = "A" THEN Head(answer).A
    ELSE FirstA(Tail(answer))

HasA(answer) == \E i \in 1..Len(answer) : answer[i].Type = "A"

(* Faulty variant: the loop has no break, the last A record stays. *)
testDNSLastA(server, domain, response, responseTime) ==
    LET result == [Server |-> server, Domain |-> domain, Category |-> "",
                   Success |-> FALSE, ResponseTime |-> responseTime,
                   IP |-> "", Error |-> ""]
        records == { i \in 1..Len(response.Answer) : response.Answer[i].Type = "A" }
        last == CHOOSE i \in records : \A j \in records : j <= i
    IN  IF response.Err # NoError
        THEN [result EXCEPT !.Error = response.Err]
        ELSE IF response.Nil \/ Len(response.Answer) = 0
        THEN [result EXCEPT !.Error = "No answer received"]
        ELSE IF HasA(response.Answer)
        THEN [result EXCEPT !.Success = TRUE, !.IP = response.Answer[last].A]
        ELSE [result EXCEPT !.Error = "No A record found in response"]

(* Faulty variant: an answer without an A record leaves Error empty. *)
testDNSSilent(server, domain, response, responseTime) ==
    LET result == [Server |-> server, Domain |-> domain, Category |-> "",
                   Success |-> FALSE, ResponseTime |-> responseTime,
                   IP |-> "", Error |-> ""]
    IN  IF response.Err # NoError
        THEN [result EXCEPT !.Error = response.Err]
        ELSE IF response.Nil \/ Len(response.Answer) = 0
        THEN [result EXCEPT !.Error = "No answer received"]
        ELSE IF HasA(response.Answer)
        THEN [result EXCEPT !.Success = TRUE, !.IP = FirstA(response.Answer)]
        ELSE result

testDNS(server, domain, response, responseTime) ==
    LET result == [Server |-> server, Domain |-> domain, Category |-> "",
                   Success |-> FALSE, ResponseTime |-> responseTime,
                   IP |-> "", Error |-> ""]
    IN  IF response.Err # NoError
        THEN [result EXCEPT !.Error = response.Err]
        ELSE IF response.Nil \/ Len(response.Answer) = 0
        THEN [result EXCEPT !.Error = "No answer received"]
        ELSE IF HasA(response.Answer)
        THEN [result EXCEPT !.Success = TRUE, !.IP = FirstA(response.Answer)]
        ELSE [result EXCEPT !.Error = "No A record found in response"]

(* The exchanges a run of the pool is checked with. *)
RunResponses ==
    { Response("i/o timeout", TRUE, <<>>),
      Response(NoError, FALSE, <<RR("A", "93.184.216.34")>>) }

RunResponseTimes == {1}

(* The elapsed time a run of the pool is checked with. *)
RunElapsed == {5}

(* Elapsed times around one minute, two minutes and one hour, in units of  *)
(* 20 ms.                                                                  *)
LongElapsed == {2998, 2999, 3000, 3001, 5999, 6000, 182999}

(* Every way an exchange can end: an error, no response, no answer, an     *)
(* answer without an A record, an answer whose A record comes second, and  *)
(* an answer that is an A record.                                          *)
Responses ==
    { Response("i/o timeout", TRUE, <<>>),
      Response(NoError, TRUE, <<>>),
      Response(NoError, FALSE, <<>>),
      Response(NoError, FALSE, <<RR("CNAME", "")>>),
      Response(NoError, FALSE, <<RR("CNAME", ""), RR("A", "93.184.216.34")>>),
      Response(NoError, FALSE, <<RR("A", "93.184.216.34")>>) }

(***************************************************************************)
(* calculateSummary.  A float64 quotient a/b*100 is kept as the exact      *)
(* fraction 100a/b in lowest terms; 0/0 is NaN.                            *)
(***************************************************************************)
RECURSIVE GCD(_, _)
GCD(a, b) == IF b = 0 THEN a ELSE GCD(b, a % b)

NaN == [Num |-> 0, Den |-> 0]

(* Faulty variant: the quotient is taken the wrong way round. *)
PercentSwapped(part, whole) ==
    IF part = 0 THEN NaN
    ELSE LET g == GCD(100 * whole, part)
         IN  [Num |-> (100 * whole) \div g, Den |-> part \div g]

Percent(part, whole) ==
    IF whole = 0 THEN NaN
    ELSE LET g == GCD(100 * part, whole)
         IN  [Num |-> (100 * part) \div g, Den |-> whole \div g]

(* Faulty variant: every result is counted as a success. *)
CountSuccessAll(results) == Len(results)

RECURSIVE CountSuccess(_)
CountSuccess(results) ==
    IF results = <<>> THEN 0
    ELSE (IF Head(results).Success THEN 1 ELSE 0) + CountSuccess(Tail(results))

(* Faulty variant: the sum of the response times stops at the first failed *)
(* result.                                                                 *)
RECURSIVE SumResponseTimeUntilFailure(_)
SumResponseTimeUntilFailure(results) ==
    IF results = <<>> \/ ~Head(results).Success THEN 0
    ELSE Head(results).ResponseTime + SumResponseTimeUntilFailure(Tail(results))

(* Faulty variant: the response times of failed results are added too. *)
RECURSIVE SumResponseTimeAll(_)
SumResponseTimeAll(results) ==
    IF results = <<>> THEN 0
    ELSE Head(results).ResponseTime + SumResponseTimeAll(Tail(results))

RECURSIVE SumResponseTime(_)
SumResponseTime(results) ==
    IF results = <<>> THEN 0
    ELSE (IF Head(results).Success THEN Head(results).ResponseTime ELSE 0)
         + SumResponseTime(Tail(results))

(* Faulty variant: only the successful results are grouped. *)
categoryResultsSuccessOnly(results, category) ==
    SelectSeq(results, LAMBDA r : r.Category = category /\ r.Success)

(* categoryResults[category]: the results of one category, in order. *)
categoryResults(results, category) ==
    SelectSeq(results, LAMBDA r : r.Category = category)

(* Faulty variant: an entry is made for every known category. *)
categoryKeysKnown(results) ==
    {CategoryGeneral, CategoryAdServer, CategoryOther, CategoryAdult}

(* The keys of the categoryResults map: the categories appended to. *)
categoryKeys(results) == { results[i].Category : i \in 1..Len(results) }

CategoryStatsOf(catResults) ==
    LET catTotal == Len(catResults)
        catSuccessful == CountSuccess(catResults)
    IN  [TotalTests |-> catTotal,
         SuccessfulTests |-> catSuccessful,
         FailedTests |-> catTotal - catSuccessful,
         SuccessRate |-> Percent(catSuccessful, catTotal)]

calculateSummary(results) ==
    LET totalTests == Len(results)
        successfulTests == CountSuccess(results)
        totalResponseTime == SumResponseTime(results)
        categories == categoryKeys(results)
    IN  [TotalTests |-> totalTests,
         SuccessfulTests |-> successfulTests,
         FailedTests |-> totalTests - successfulTests,
         SuccessRate |-> Percent(successfulTests, totalTests),
         AverageResponseTime |->
             IF successfulTests > 0 THEN totalResponseTime \div successfulTests
             ELSE 0,
         CategoryStats |->
             [c \in categories |-> CategoryStatsOf(categoryResults(results, c))]]

(***************************************************************************)
(* The sort of runDNSTests.  less is the comparison handed to sort.Slice;  *)
(* sort.Slice promises a permutation in which no element is less than an   *)
(* earlier one and does not promise stability, so every such permutation   *)
(* is an outcome.                                                          *)
(***************************************************************************)
(* Faulty variant: the comparison forgets the domain. *)
lessIPOnly(x, y) == StrLess(x.Server.IP, y.Server.IP)

less(x, y) ==
    IF x.Server.IP # y.Server.IP THEN StrLess(x.Server.IP, y.Server.IP)
    ELSE StrLess(x.Domain, y.Domain)

RECURSIVE SortedOrders(_, _)
SortedOrders(s, idx) ==
    IF idx = {} THEN { <<>> }
    ELSE UNION { { <<i>> \o t : t \in SortedOrders(s, idx \ {i}) } :
                 i \in { k \in idx : \A j \in idx : ~less(s[j], s[k]) } }

sortSlice(s) ==
    { [k \in 1..Len(s) |-> s[p[k]]] : p \in SortedOrders(s, 1..Len(s)) }

(***************************************************************************)
(* The state of one call of runDNSTests.                                   *)
(***************************************************************************)
VARIABLES
    servers,        \* argument: the server list
    domains,        \* argument: the domain list
    workers,        \* argument: the worker count
    exchanges,      \* environment: the outcomes client.Exchange can have
    elapsedTimes,   \* environment: the values time.Since(startTime) can have
    timeout,        \* argument: the -timeout flag, in seconds
    domainsFile,    \* main: the lines of the -domains file, <<>> if none
    jobs,           \* the jobs channel's buffer
    jobsClosed,     \* close(jobs) has happened
    results,        \* the results channel's buffer
    resultsClosed,  \* close(results) has happened
    completedJobs,  \* the atomic completion counter
    wg,             \* the WaitGroup's counter
    started,        \* the loop variable i of the worker-starting loop
    mainPc,         \* where runDNSTests itself is
    workerPc,       \* where each started worker goroutine is
    workerJob,      \* each worker's j
    workerResult,   \* each worker's result
    senderPc,       \* where the job-sending goroutine is
    enqueued,       \* how many jobs the sender has put on the channel
    closerPc,       \* where the goroutine closing results is
    monitorPc,      \* where showProgress is
    current,        \* showProgress: the value it last sampled
    filled,         \* showProgress: the filled cells of the bar it last drew
    empty,          \* showProgress: the empty cells of the bar it last drew
    eta,            \* showProgress: the eta it last computed
    line,           \* showProgress: the times of the line it last printed
    allResults,     \* the collector's slice
    collected,      \* allResults as it was when the collection ended
    report,         \* the value runDNSTests returned
    probed,         \* history: the bag of jobs testDNS was invoked for
    panicked,       \* the panic that ended the process, "" if none
    written         \* main: what outputResults returned and wrote

vars == <<servers, domains, workers, jobs, jobsClosed, results, resultsClosed,
          completedJobs, wg, started, mainPc, workerPc, workerJob, workerResult,
          senderPc, enqueued, closerPc, monitorPc, current, filled, allResults,
          collected, report, probed, panicked, exchanges, written,
          elapsedTimes, empty, eta, timeout, domainsFile, line>>

inputs == <<servers, domains, workers, exchanges, elapsedTimes, timeout,
            domainsFile>>
channels == <<jobs, jobsClosed, results, resultsClosed>>
workerVars == <<workerPc, workerJob, workerResult>>
monitorVars == <<monitorPc, current, filled, empty, eta, line>>
mainVars == <<mainPc, started, allResults, collected, report>>

None == <<>>
NoFile == [Name |-> "", Lines |-> <<>>]
NoPanic == ""
NoSample == -1

totalJobs == Len(servers) * Len(domains)

(* Faulty variant: the jobs channel is buffered for one job a worker. *)
jobsCapPerWorker == workers

(* make(chan job, totalJobs) *)
jobsCap == totalJobs

(* Faulty variant: the results channel is buffered for one result a worker. *)
resultsCapPerWorker == workers

(* make(chan TestResult, totalJobs) *)
resultsCap == totalJobs

(* The number of turns of the sender's nested loops. *)
loopTurns == Len(servers) * Len(domains)

(* Faulty variant: the loops are nested the other way round. *)
JobAtDomainMajor(k) ==
    [server |-> servers[((k - 1) % Len(servers)) + 1],
     domain |-> domains[((k - 1) \div Len(servers)) + 1]]

(* The k-th job of the sender's nested loops: servers outside, domains inside. *)
JobAt(k) ==
    [server |-> servers[((k - 1) \div Len(domains)) + 1],
     domain |-> domains[((k - 1) % Len(domains)) + 1]]

Running == panicked = NoPanic

(* The state in which runDNSTests is entered. *)
Entered ==
    /\ jobs = <<>>
    /\ jobsClosed = FALSE
    /\ results = <<>>
    /\ resultsClosed = FALSE
    /\ completedJobs = 0
    /\ wg = 0
    /\ started = 0
    /\ mainPc = "start"
    /\ workerPc = <<>>
    /\ workerJob = <<>>
    /\ workerResult = <<>>
    /\ senderPc = "unstarted"
    /\ enqueued = 0
    /\ closerPc = "unstarted"
    /\ monitorPc = "unstarted"
    /\ current = NoSample
    /\ filled = 0
    /\ empty = 0
    /\ eta = 0
    /\ line = None
    /\ allResults = <<>>
    /\ collected = <<>>
    /\ report = None
    /\ probed = EmptyBag
    /\ panicked = NoPanic
    /\ written = None

Init ==
    /\ servers \in Excerpts(ServerPool, MaxServers)
    /\ domains \in Excerpts(DomainPool, MaxDomains)
    /\ Len(servers) * Len(domains) <= MaxJobs
    /\ workers \in 0..MaxWorkers
    /\ exchanges = RunResponses
    /\ elapsedTimes = RunElapsed
    /\ timeout = DefaultTimeout
    /\ domainsFile = NoFile
    /\ Entered

(***************************************************************************)
(* runDNSTests, up to the collection loop.                                 *)
(***************************************************************************)
(* make the channels and the done channel; go showProgress(...) *)
StartMonitor ==
    /\ Running /\ mainPc = "start"
    /\ monitorPc' = "select"
    /\ mainPc' = "workers"
    /\ UNCHANGED <<inputs, written, channels, completedJobs, wg, started, workerVars,
                   senderPc, enqueued, closerPc, current, filled, empty, eta, line,
                   allResults,
                   collected, report, probed, panicked>>

(* Faulty variant: the loop runs once too often (i <= workers). *)
StartWorkerOneMore ==
    /\ Running /\ mainPc = "workers" /\ started <= workers
    /\ wg' = wg + 1
    /\ workerPc' = Append(workerPc, "range")
    /\ workerJob' = Append(workerJob, None)
    /\ workerResult' = Append(workerResult, None)
    /\ started' = started + 1
    /\ UNCHANGED <<inputs, written, channels, completedJobs, mainPc, senderPc, enqueued,
                   closerPc, monitorVars, allResults, collected, report, probed,
                   panicked>>

(* one turn of the loop: wg.Add(1); go func() {...}() *)
StartWorker ==
    /\ Running /\ mainPc = "workers" /\ started < workers
    /\ wg' = wg + 1
    /\ workerPc' = Append(workerPc, "range")
    /\ workerJob' = Append(workerJob, None)
    /\ workerResult' = Append(workerResult, None)
    /\ started' = started + 1
    /\ UNCHANGED <<inputs, written, channels, completedJobs, mainPc, senderPc, enqueued,
                   closerPc, monitorVars, allResults, collected, report, probed,
                   panicked>>

(* the loop ends; go func() { defer close(jobs); ... }() *)
StartSender ==
    /\ Running /\ mainPc = "workers" /\ started >= workers
    /\ senderPc' = "loop"
    /\ mainPc' = "closer"
    /\ UNCHANGED <<inputs, written, channels, completedJobs, wg, started, workerVars,
                   enqueued, closerPc, monitorVars, allResults, collected,
                   report, probed, panicked>>

(* go func() { wg.Wait(); close(results) }() *)
StartCloser ==
    /\ Running /\ mainPc = "closer"
    /\ closerPc' = "wait"
    /\ mainPc' = "collect"
    /\ UNCHANGED <<inputs, written, channels, completedJobs, wg, started, workerVars,
                   senderPc, enqueued, monitorVars, allResults, collected,
                   report, probed, panicked>>

(***************************************************************************)
(* The job sender.                                                         *)
(***************************************************************************)
(* jobs <- job{server, domain}: blocks while the buffer is full *)
SendJob ==
    /\ Running /\ senderPc = "loop" /\ enqueued < loopTurns
    /\ IF jobsClosed
       THEN /\ panicked' = "send on closed channel"
            /\ UNCHANGED <<jobs, enqueued>>
       ELSE /\ Len(jobs) < jobsCap
            /\ jobs' = Append(jobs, JobAt(enqueued + 1))
            /\ enqueued' = enqueued + 1
            /\ UNCHANGED panicked
    /\ UNCHANGED <<inputs, written, jobsClosed, results, resultsClosed, completedJobs, wg,
                   workerVars, senderPc, closerPc, monitorVars, mainVars, probed>>

(* the loops end; the deferred close(jobs) runs *)
CloseJobs ==
    /\ Running /\ senderPc = "loop" /\ enqueued = loopTurns
    /\ IF jobsClosed
       THEN panicked' = "close of closed channel" /\ UNCHANGED jobsClosed
       ELSE jobsClosed' = TRUE /\ UNCHANGED panicked
    /\ senderPc' = "exited"
    /\ UNCHANGED <<inputs, written, jobs, results, resultsClosed, completedJobs, wg,
                   workerVars, enqueued, closerPc, monitorVars, mainVars, probed>>

(***************************************************************************)
(* A worker: for j := range jobs { testDNS; results <- result; add }       *)
(***************************************************************************)
(* receive the next job and call testDNS with it *)
TakeJob(w) ==
    /\ Running /\ workerPc[w] = "range" /\ jobs # <<>>
    /\ workerJob' = [workerJob EXCEPT ![w] = Head(jobs)]
    /\ jobs' = Tail(jobs)
    /\ probed' = probed (+) SetToBag({Head(jobs)})
    /\ workerPc' = [workerPc EXCEPT ![w] = "testDNS"]
    /\ UNCHANGED <<inputs, written, jobsClosed, results, resultsClosed, completedJobs, wg,
                   workerResult, senderPc, enqueued, closerPc, monitorVars,
                   mainVars, panicked>>

(* Faulty variant: the worker gives up as soon as it finds the channel empty. *)
WorkerExitEarly(w) ==
    /\ Running /\ workerPc[w] = "range" /\ jobs = <<>>
    /\ wg' = wg - 1
    /\ workerPc' = [workerPc EXCEPT ![w] = "exited"]
    /\ UNCHANGED <<inputs, written, channels, completedJobs, workerJob, workerResult,
                   senderPc, enqueued, closerPc, monitorVars, mainVars, probed,
                   panicked>>

(* the channel is closed and drained: the loop ends, the deferred wg.Done() runs *)
WorkerExit(w) ==
    /\ Running /\ workerPc[w] = "range" /\ jobs = <<>> /\ jobsClosed
    /\ wg' = wg - 1
    /\ workerPc' = [workerPc EXCEPT ![w] = "exited"]
    /\ UNCHANGED <<inputs, written, channels, completedJobs, workerJob, workerResult,
                   senderPc, enqueued, closerPc, monitorVars, mainVars, probed,
                   panicked>>

(* Faulty variant: a failed probe is tried again. *)
ProbeReturnsRetry(w) ==
    /\ Running /\ workerPc[w] = "testDNS"
    /\ \E response \in exchanges, responseTime \in RunResponseTimes :
          LET result == [testDNS(workerJob[w].server, workerJob[w].domain.Domain,
                                 response, responseTime)
                         EXCEPT !.Category = workerJob[w].domain.Category]
          IN  IF result.Success
              THEN /\ workerResult' = [workerResult EXCEPT ![w] = result]
                   /\ workerPc' = [workerPc EXCEPT ![w] = "send"]
                   /\ UNCHANGED probed
              ELSE /\ probed' = probed (+) SetToBag({workerJob[w]})
                   /\ UNCHANGED <<workerResult, workerPc>>
    /\ UNCHANGED <<inputs, written, channels, completedJobs, wg, workerJob, senderPc,
                   enqueued, closerPc, monitorVars, mainVars, panicked>>

(* Faulty variant: the category is taken from the last domain of the list, *)
(* not from the job.                                                       *)
ProbeReturnsLastCategory(w) ==
    /\ Running /\ workerPc[w] = "testDNS"
    /\ \E response \in exchanges, responseTime \in RunResponseTimes :
          workerResult' =
              [workerResult EXCEPT ![w] =
                  [testDNS(workerJob[w].server, workerJob[w].domain.Domain,
                           response, responseTime)
                   EXCEPT !.Category = domains[Len(domains)].Category]]
    /\ workerPc' = [workerPc EXCEPT ![w] = "send"]
    /\ UNCHANGED <<inputs, written, channels, completedJobs, wg, workerJob, senderPc,
                   enqueued, closerPc, monitorVars, mainVars, probed, panicked>>

(* testDNS returns; result.Category = j.domain.Category *)
ProbeReturns(w) ==
    /\ Running /\ workerPc[w] = "testDNS"
    /\ \E response \in exchanges, responseTime \in RunResponseTimes :
          workerResult' =
              [workerResult EXCEPT ![w] =
                  [testDNS(workerJob[w].server, workerJob[w].domain.Domain,
                           response, responseTime)
                   EXCEPT !.Category = workerJob[w].domain.Category]]
    /\ workerPc' = [workerPc EXCEPT ![w] = "send"]
    /\ UNCHANGED <<inputs, written, channels, completedJobs, wg, workerJob, senderPc,
                   enqueued, closerPc, monitorVars, mainVars, probed, panicked>>

(* Faulty variant: a failed probe's result is dropped instead of sent. *)
SendResultDropFailures(w) ==
    /\ Running /\ workerPc[w] = "send"
    /\ IF resultsClosed
       THEN /\ panicked' = "send on closed channel"
            /\ UNCHANGED <<results, workerPc>>
       ELSE /\ Len(results) < resultsCap
            /\ results' = IF workerResult[w].Success
                          THEN Append(results, workerResult[w]) ELSE results
            /\ workerPc' = [workerPc EXCEPT ![w] = "add"]
            /\ UNCHANGED panicked
    /\ UNCHANGED <<inputs, written, jobs, jobsClosed, resultsClosed, completedJobs, wg,
                   workerJob, workerResult, senderPc, enqueued, closerPc,
                   monitorVars, mainVars, probed>>

(* results <- result: blocks while the buffer is full *)
SendResult(w) ==
    /\ Running /\ workerPc[w] = "send"
    /\ IF resultsClosed
       THEN /\ panicked' = "send on closed channel"
            /\ UNCHANGED <<results, workerPc>>
       ELSE /\ Len(results) < resultsCap
            /\ results' = Append(results, workerResult[w])
            /\ workerPc' = [workerPc EXCEPT ![w] = "add"]
            /\ UNCHANGED panicked
    /\ UNCHANGED <<inputs, written, jobs, jobsClosed, resultsClosed, completedJobs, wg,
                   workerJob, workerResult, senderPc, enqueued, closerPc,
                   monitorVars, mainVars, probed>>

(* Faulty variant: the counter is raised by two. *)
AddCompletedTwice(w) ==
    /\ Running /\ workerPc[w] = "add"
    /\ completedJobs' = completedJobs + 2
    /\ workerPc' = [workerPc EXCEPT ![w] = "range"]
    /\ workerJob' = [workerJob EXCEPT ![w] = None]
    /\ workerResult' = [workerResult EXCEPT ![w] = None]
    /\ UNCHANGED <<inputs, written, channels, wg, senderPc, enqueued, closerPc,
                   monitorVars, mainVars, probed, panicked>>

(* Faulty variant: only successful probes are counted. *)
AddCompletedSuccessOnly(w) ==
    /\ Running /\ workerPc[w] = "add"
    /\ completedJobs' = completedJobs + (IF workerResult[w].Success THEN 1 ELSE 0)
    /\ workerPc' = [workerPc EXCEPT ![w] = "range"]
    /\ workerJob' = [workerJob EXCEPT ![w] = None]
    /\ workerResult' = [workerResult EXCEPT ![w] = None]
    /\ UNCHANGED <<inputs, written, channels, wg, senderPc, enqueued, closerPc,
                   monitorVars, mainVars, probed, panicked>>

(* atomic.AddInt64(&completedJobs, 1); back to the head of the loop *)
AddCompleted(w) ==
    /\ Running /\ workerPc[w] = "add"
    /\ completedJobs' = completedJobs + 1
    /\ workerPc' = [workerPc EXCEPT ![w] = "range"]
    /\ workerJob' = [workerJob EXCEPT ![w] = None]
    /\ workerResult' = [workerResult EXCEPT ![w] = None]
    /\ UNCHANGED <<inputs, written, channels, wg, senderPc, enqueued, closerPc,
                   monitorVars, mainVars, probed, panicked>>

(***************************************************************************)
(* The goroutine that closes results.                                      *)
(***************************************************************************)
(* Faulty variant: the closer does not wait for the workers. *)
WaitWorkersNoWait ==
    /\ Running /\ closerPc = "wait"
    /\ closerPc' = "close"
    /\ UNCHANGED <<inputs, written, channels, completedJobs, wg, workerVars, senderPc,
                   enqueued, monitorVars, mainVars, probed, panicked>>

(* wg.Wait() returns once the counter is zero *)
WaitWorkers ==
    /\ Running /\ closerPc = "wait" /\ wg = 0
    /\ closerPc' = "close"
    /\ UNCHANGED <<inputs, written, channels, completedJobs, wg, workerVars, senderPc,
                   enqueued, monitorVars, mainVars, probed, panicked>>

(* close(results) *)
CloseResults ==
    /\ Running /\ closerPc = "close"
    /\ IF resultsClosed
       THEN panicked' = "close of closed channel" /\ UNCHANGED resultsClosed
       ELSE resultsClosed' = TRUE /\ UNCHANGED panicked
    /\ closerPc' = "exited"
    /\ UNCHANGED <<inputs, written, jobs, jobsClosed, results, completedJobs, wg,
                   workerVars, senderPc, enqueued, monitorVars, mainVars, probed>>

(***************************************************************************)
(* runDNSTests, from the collection loop on.                               *)
(***************************************************************************)
(* one turn of: for result := range results { allResults = append(...) } *)
Collect ==
    /\ Running /\ mainPc = "collect" /\ results # <<>>
    /\ allResults' = Append(allResults, Head(results))
    /\ results' = Tail(results)
    /\ UNCHANGED <<inputs, written, jobs, jobsClosed, resultsClosed, completedJobs, wg,
                   started, mainPc, workerVars, senderPc, enqueued, closerPc,
                   monitorVars, collected, report, probed, panicked>>

(* Faulty variant: the collection ends as soon as the channel is found empty. *)
EndCollectEarly ==
    /\ Running /\ mainPc = "collect" /\ results = <<>>
    /\ collected' = allResults
    /\ mainPc' = "stop"
    /\ UNCHANGED <<inputs, written, channels, completedJobs, wg, started, workerVars,
                   senderPc, enqueued, closerPc, monitorVars, allResults, report,
                   probed, panicked>>

(* the channel is closed and drained: the loop ends *)
EndCollect ==
    /\ Running /\ mainPc = "collect" /\ results = <<>> /\ resultsClosed
    /\ collected' = allResults
    /\ mainPc' = "stop"
    /\ UNCHANGED <<inputs, written, channels, completedJobs, wg, started, workerVars,
                   senderPc, enqueued, closerPc, monitorVars, allResults, report,
                   probed, panicked>>

(* Faulty variant: done <- true is sent before the collection loop has     *)
(* ended.                                                                  *)
StopMonitorEarly ==
    /\ Running /\ mainPc \in {"collect", "stop"}
    /\ mainPc = "stop" \/ monitorPc = "select"
    /\ monitorPc' = "returned"
    /\ mainPc' = IF mainPc = "stop" THEN "sort" ELSE mainPc
    /\ UNCHANGED <<inputs, written, channels, completedJobs, wg, started, workerVars,
                   senderPc, enqueued, closerPc, current, filled, empty, eta, line,
                   allResults,
                   collected, report, probed, panicked>>

(* done <- true, taken by the case <-done of showProgress, which returns *)
StopMonitor ==
    /\ Running /\ mainPc = "stop" /\ monitorPc = "select"
    /\ monitorPc' = "returned"
    /\ mainPc' = "sort"
    /\ UNCHANGED <<inputs, written, channels, completedJobs, wg, started, workerVars,
                   senderPc, enqueued, closerPc, current, filled, empty, eta, line,
                   allResults,
                   collected, report, probed, panicked>>

(* sort.Slice(allResults, less) *)
SortResults ==
    /\ Running /\ mainPc = "sort"
    /\ allResults' \in sortSlice(allResults)
    /\ mainPc' = "summary"
    /\ UNCHANGED <<inputs, written, channels, completedJobs, wg, started, workerVars,
                   senderPc, enqueued, closerPc, monitorVars, collected, report,
                   probed, panicked>>

(* summary := calculateSummary(allResults); return TestResults{...} *)
Return ==
    /\ Running /\ mainPc = "summary"
    /\ report' = [Results |-> allResults, Summary |-> calculateSummary(allResults)]
    /\ mainPc' = "returned"
    /\ UNCHANGED <<inputs, written, channels, completedJobs, wg, started, workerVars,
                   senderPc, enqueued, closerPc, monitorVars, allResults,
                   collected, probed, panicked>>

(***************************************************************************)
(* showProgress: the case <-ticker.C of its select.                        *)
(***************************************************************************)
(* Faulty variant: the number of cells is rounded to the nearest. *)
FilledCellsRounded(completed, total) ==
    IF total = 0 THEN {0, -1, ProgressBarWidth + 1}
    ELSE {(2 * completed * ProgressBarWidth + total) \div (2 * total)}

(* int(progress * float64(ProgressBarWidth)) with progress = current/total.  *)
(* With total = 0 the quotient 0/0 is NaN, and Go leaves the conversion of   *)
(* NaN to int to the implementation: 0, a negative or a huge value.          *)
FilledCells(completed, total) ==
    IF total = 0 THEN {0, -1, ProgressBarWidth + 1}
    ELSE {(completed * ProgressBarWidth) \div total}

(* formatDuration.  Durations are counted in units of 20 ms, so that %.1f   *)
(* rounds a duration to the nearest tenth of a second without a tie.       *)
Second == 50

Minute == 60 * Second

(* Faulty variant: a duration of exactly one minute is still given in      *)
(* seconds.                                                                *)
formatDurationUpTo(d) ==
    IF d <= Minute
    THEN [Form |-> "s", Minutes |-> 0, Seconds |-> ((d + 2) \div 5) \div 10,
          Tenths |-> ((d + 2) \div 5) % 10]
    ELSE [Form |-> "ms", Minutes |-> d \div Minute,
          Seconds |-> (d \div Second) % 60, Tenths |-> 0]

(* if d < time.Minute { "%.1fs" of d.Seconds() }; otherwise "%dm%ds" of    *)
(* int(d.Minutes()) and int(d.Seconds()) % 60.                             *)
formatDuration(d) ==
    IF d < Minute
    THEN [Form |-> "s", Minutes |-> 0, Seconds |-> ((d + 2) \div 5) \div 10,
          Tenths |-> ((d + 2) \div 5) % 10]
    ELSE [Form |-> "ms", Minutes |-> d \div Minute,
          Seconds |-> (d \div Second) % 60, Tenths |-> 0]

(* var eta time.Duration; if current > 0 { eta = elapsed / current *        *)
(* (total - current) }, in integer nanoseconds.                            *)
ETA(completed, total, elapsed) ==
    IF completed > 0 THEN (elapsed \div completed) * (total - completed)
    ELSE 0

(* Faulty variant: the loop goes on taking ticks after the stop signal. *)
TickAfterStop ==
    /\ Running /\ monitorPc \in {"select", "returned"}
    /\ current' = completedJobs
    /\ \E elapsed \in elapsedTimes, cells \in FilledCells(completedJobs, totalJobs) :
          /\ eta' = ETA(completedJobs, totalJobs, elapsed)
          /\ IF cells < 0 \/ ProgressBarWidth - cells < 0
             THEN /\ panicked' = "strings: negative Repeat count"
                  /\ UNCHANGED <<filled, empty, line>>
             ELSE /\ filled' = cells
                  /\ empty' = ProgressBarWidth - cells
                  /\ line' = [Elapsed |-> formatDuration(elapsed),
                              ETA |-> formatDuration(eta')]
                  /\ UNCHANGED panicked
    /\ UNCHANGED <<inputs, written, channels, completedJobs, wg, workerVars, senderPc,
                   enqueued, closerPc, monitorPc, mainVars, probed>>

(* strings.Repeat panics on a negative count *)
Tick ==
    /\ Running /\ monitorPc = "select"
    /\ current' = completedJobs
    /\ \E elapsed \in elapsedTimes, cells \in FilledCells(completedJobs, totalJobs) :
          /\ eta' = ETA(completedJobs, totalJobs, elapsed)
          /\ IF cells < 0 \/ ProgressBarWidth - cells < 0
             THEN /\ panicked' = "strings: negative Repeat count"
                  /\ UNCHANGED <<filled, empty, line>>
             ELSE /\ filled' = cells
                  /\ empty' = ProgressBarWidth - cells
                  /\ line' = [Elapsed |-> formatDuration(elapsed),
                              ETA |-> formatDuration(eta')]
                  /\ UNCHANGED panicked
    /\ UNCHANGED <<inputs, written, channels, completedJobs, wg, workerVars, senderPc,
                   enqueued, closerPc, monitorPc, mainVars, probed>>

(***************************************************************************)
(* main after runDNSTests: outputResults(results, *outputFile, *formatFlag) *)
(***************************************************************************)
Formats == {"json", "text", "xml"}

OutputFiles == {"", "results.out"}

(* os.WriteFile succeeds or fails as the file system decides. *)
WriteErrors == {NoError, "permission denied"}

(* encoding/json refuses a float64 that is NaN (UnsupportedValueError). *)
HasNaN(summary) ==
    \/ summary.SuccessRate = NaN
    \/ \E c \in DOMAIN summary.CategoryStats :
          summary.CategoryStats[c].SuccessRate = NaN

MarshalIndent(rep) ==
    IF HasNaN(rep.Summary)
    THEN [Data |-> None, Err |-> "json: unsupported value: NaN"]
    ELSE [Data |-> [Encoding |-> "json", Results |-> rep.Results,
                    Summary |-> rep.Summary],
          Err |-> NoError]

(* fmt renders a NaN rate as the text NaN; writeTextOutput has no error. *)
writeTextOutput(rep) ==
    [Encoding |-> "text", Summary |-> rep.Summary, Results |-> rep.Results]

outputResults(rep, outputFile, format, writeErr) ==
    LET call == [Format |-> format, OutputFile |-> outputFile]
        failed(err) == call @@ [Err |-> err, Stdout |-> None, File |-> None]
        emit(output) ==
            IF outputFile # ""
            THEN IF writeErr # NoError THEN failed(writeErr)
                 ELSE call @@ [Err |-> NoError, Stdout |-> None, File |-> output]
            ELSE call @@ [Err |-> NoError, Stdout |-> output, File |-> None]
    IN  IF format = "json"
        THEN IF MarshalIndent(rep).Err # NoError
             THEN failed(MarshalIndent(rep).Err)
             ELSE emit(MarshalIndent(rep).Data)
        ELSE IF format = "text" THEN emit(writeTextOutput(rep))
        ELSE failed("unsupported format")

OutputResults ==
    /\ Running /\ mainPc = "returned" /\ written = None
    /\ \E format \in Formats, outputFile \in OutputFiles, writeErr \in WriteErrors :
          written' = outputResults(report, outputFile, format, writeErr)
    /\ UNCHANGED <<inputs, channels, completedJobs, wg, workerVars, senderPc,
                   enqueued, closerPc, monitorVars, mainVars, probed, panicked>>

(* The steps of the worker goroutines that were started. *)
Worker(w) ==
    \/ TakeJob(w)
    \/ WorkerExit(w)
    \/ ProbeReturns(w)
    \/ SendResult(w)
    \/ AddCompleted(w)

Next ==
    \/ StartMonitor
    \/ StartWorker
    \/ StartSender
    \/ StartCloser
    \/ SendJob
    \/ CloseJobs
    \/ \E w \in DOMAIN workerPc : TakeJob(w)
    \/ \E w \in DOMAIN workerPc : WorkerExit(w)
    \/ \E w \in DOMAIN workerPc : ProbeReturns(w)
    \/ \E w \in DOMAIN workerPc : SendResult(w)
    \/ \E w \in DOMAIN workerPc : AddCompleted(w)
    \/ WaitWorkers
    \/ CloseResults
    \/ Collect
    \/ EndCollect
    \/ StopMonitor
    \/ SortResults
    \/ Return
    \/ Tick
    \/ OutputResults

Spec == Init /\ [][Next]_vars

(* Go schedules every runnable goroutine, and the ticker keeps firing. *)
Fairness ==
    /\ WF_vars(StartMonitor \/ StartWorker \/ StartSender \/ StartCloser)
    /\ WF_vars(SendJob \/ CloseJobs)
    /\ \A w \in 1..MaxWorkers : WF_vars(w \in DOMAIN workerPc /\ Worker(w))
    /\ WF_vars(WaitWorkers \/ CloseResults)
    /\ WF_vars(Collect \/ EndCollect \/ StopMonitor \/ SortResults \/ Return)
    /\ WF_vars(Tick)

FairSpec == Spec /\ Fairness

(***************************************************************************)
(* The pool of one server against the domain lists, with every way an      *)
(* exchange can end.                                                       *)
(***************************************************************************)
FailureInit ==
    /\ servers = <<ServerPool[1]>>
    /\ domains \in Excerpts(DomainPool, MaxDomains)
    /\ Len(servers) * Len(domains) <= MaxJobs
    /\ workers \in 1..MaxWorkers
    /\ exchanges = Responses
    /\ elapsedTimes = RunElapsed
    /\ timeout = DefaultTimeout
    /\ domainsFile = NoFile
    /\ Entered

FailureSpec == FailureInit /\ [][Next]_vars

(***************************************************************************)
(* The pool of two servers against two domains, four jobs, every probe     *)
(* succeeding: the smallest run in which the order of the nested loops     *)
(* shows.                                                                  *)
(***************************************************************************)
OrderInit ==
    /\ servers = <<ServerPool[3], ServerPool[1]>>
    /\ domains = DomainPool
    /\ workers \in 1..MaxWorkers
    /\ exchanges = { Response(NoError, FALSE, <<RR("A", "93.184.216.34")>>) }
    /\ elapsedTimes = RunElapsed
    /\ timeout = DefaultTimeout
    /\ domainsFile = NoFile
    /\ Entered

OrderSpec == OrderInit /\ [][Next]_vars

(***************************************************************************)
(* One tick of showProgress on its own: any total the bounds on the lists  *)
(* allow, any value of the counter up to it, any elapsed time up to        *)
(* MaxElapsed.                                                             *)
(***************************************************************************)
TickInit ==
    /\ servers \in Excerpts(ServerPool, MaxServers)
    /\ domains \in Excerpts(DomainPool, MaxDomains)
    /\ workers = 0
    /\ exchanges = RunResponses
    /\ elapsedTimes = (0..MaxElapsed) \cup LongElapsed
    /\ timeout = DefaultTimeout
    /\ domainsFile = NoFile
    /\ completedJobs \in 0..(Len(servers) * Len(domains))
    /\ mainPc = "collect"
    /\ monitorPc = "select" /\ current = NoSample
    /\ filled = 0 /\ empty = 0 /\ eta = 0 /\ line = None
    /\ jobs = <<>> /\ jobsClosed = TRUE
    /\ results = <<>> /\ resultsClosed = FALSE
    /\ wg = 0 /\ started = 0
    /\ workerPc = <<>> /\ workerJob = <<>> /\ workerResult = <<>>
    /\ senderPc = "exited" /\ enqueued = Len(servers) * Len(domains)
    /\ closerPc = "wait"
    /\ allResults = <<>> /\ collected = <<>>
    /\ report = None
    /\ probed = EmptyBag
    /\ panicked = NoPanic
    /\ written = None

TickNext == Tick

TickSpec == TickInit /\ [][TickNext]_vars

(***************************************************************************)
(* calculateSummary and outputResults on their own: the result list is any *)
(* list of at most MaxResults results, over three categories, failed or    *)
(* successful, with a response time up to MaxResponseTime.                 *)
(***************************************************************************)
SummaryDomains ==
    { DomainPool[1], DomainPool[2], DomainCategory(<<3>>, CategoryAdult) }

SummaryResults ==
    { [testDNS(ServerPool[1], d.Domain, response, responseTime)
          EXCEPT !.Category = d.Category] :
      d \in SummaryDomains, response \in RunResponses,
      responseTime \in 1..MaxResponseTime }

SummaryInit ==
    /\ allResults \in UNION { [1..n -> SummaryResults] : n \in 0..MaxResults }
    /\ mainPc = "summary"
    /\ servers = <<>> /\ domains = <<>> /\ workers = 0
    /\ exchanges = RunResponses
    /\ elapsedTimes = RunElapsed
    /\ timeout = DefaultTimeout
    /\ domainsFile = NoFile
    /\ jobs = <<>> /\ jobsClosed = TRUE
    /\ results = <<>> /\ resultsClosed = TRUE
    /\ completedJobs = Len(allResults)
    /\ wg = 0 /\ started = 0
    /\ workerPc = <<>> /\ workerJob = <<>> /\ workerResult = <<>>
    /\ senderPc = "exited" /\ enqueued = 0
    /\ closerPc = "exited"
    /\ monitorPc = "returned" /\ current = NoSample
    /\ filled = 0 /\ empty = 0 /\ eta = 0 /\ line = None
    /\ collected = allResults
    /\ report = None
    /\ probed = EmptyBag
    /\ panicked = NoPanic
    /\ written = None

SummaryNext == Return \/ OutputResults

SummarySpec == SummaryInit /\ [][SummaryNext]_vars

(***************************************************************************)
(* Properties of a run.                                                    *)
(***************************************************************************)
NM == Len(servers) * Len(domains)

RECURSIVE BagOfSeq(_)
BagOfSeq(q) ==
    IF q = <<>> THEN EmptyBag ELSE SetToBag({Head(q)}) (+) BagOfSeq(Tail(q))

(* The cross product as a sequence of jobs, first server first. *)
CrossSeq ==
    [k \in 1..NM |->
        [server |-> servers[((k - 1) \div Len(domains)) + 1],
         domain |-> domains[((k - 1) % Len(domains)) + 1]]]

CrossBag == BagOfSeq(CrossSeq)

(* The job a result says it comes from. *)
JobOf(r) ==
    [server |-> r.Server,
     domain |-> [Domain |-> r.Domain, Category |-> r.Category]]

JobsOf(rs) == [k \in 1..Len(rs) |-> JobOf(rs[k])]

WorkersAt(pcs) == { w \in DOMAIN workerPc : workerPc[w] \in pcs }

RECURSIVE BagOfJobsHeld(_)
BagOfJobsHeld(ws) ==
    IF ws = {} THEN EmptyBag
    ELSE LET w == CHOOSE x \in ws : TRUE
         IN  SetToBag({workerJob[w]}) (+) BagOfJobsHeld(ws \ {w})

Sent == Len(results) + Len(allResults)

AllWorkersExited ==
    /\ Len(workerPc) = workers
    /\ \A w \in DOMAIN workerPc : workerPc[w] = "exited"

Terminated ==
    /\ mainPc = "returned"
    /\ senderPc = "exited"
    /\ closerPc = "exited"
    /\ monitorPc = "returned"
    /\ AllWorkersExited

(* C1: with W >= 1, when runDNSTests has returned, Results has exactly N*M *)
(* elements and Summary.TotalTests is N*M.                                 *)
C1_ResultCount ==
    (workers >= 1 /\ mainPc = "returned") =>
        /\ Len(report.Results) = NM
        /\ report.Summary.TotalTests = NM

C1_Witness ==
    /\ mainPc = "returned" /\ workers = 2 /\ NM = 2
    /\ \E i \in 1..Len(report.Results) : ~report.Results[i].Success

(* C2: with W >= 1, no job is lost or processed twice: the jobs still in   *)
(* the channel and the jobs testDNS was invoked for are together the jobs  *)
(* enqueued so far, every invoked job is either held by one worker or has  *)
(* exactly one result emitted, and the returned results, as a bag of       *)
(* (server, domain, category), are the cross product.                      *)
C2_ExactlyOnce ==
    workers >= 1 =>
        /\ BagOfSeq(jobs) (+) probed = BagOfSeq(SubSeq(CrossSeq, 1, enqueued))
        /\ probed = BagOfSeq(JobsOf(results \o allResults))
                      (+) BagOfJobsHeld(WorkersAt({"testDNS", "send"}))
        /\ mainPc = "returned" =>
              /\ probed = CrossBag
              /\ BagOfSeq(JobsOf(report.Results)) = CrossBag

C2_Witness ==
    /\ mainPc = "returned" /\ workers = 2 /\ NM = 2
    /\ \E i, k \in 1..Len(report.Results) :
          report.Results[i].Success /\ ~report.Results[k].Success

(* C3: the number of probes in flight (workers that took a job and have    *)
(* not yet returned from testDNS) is at most W.                            *)
InFlight == Cardinality(WorkersAt({"testDNS"}))

C3_BoundedInFlight == InFlight <= workers

C3_Witness == workers = 1 /\ InFlight = 1 /\ jobs # <<>>

(* C4: with W >= 1, results is closed once, only after every worker has    *)
(* terminated and the N*M-th result was sent; no send on or second close   *)
(* of a closed channel happens; jobs is closed once, after all N*M jobs    *)
(* were enqueued.                                                          *)
C4_CloseOrder ==
    workers >= 1 =>
        /\ resultsClosed => (AllWorkersExited /\ wg = 0 /\ Sent = NM
                             /\ closerPc = "exited")
        /\ jobsClosed => (enqueued = NM /\ senderPc = "exited")
        /\ panicked \notin {"send on closed channel", "close of closed channel"}

C4_Witness ==
    resultsClosed /\ workers = 2 /\ NM = 2 /\ Len(results) = 2 /\ jobsClosed

(* C5: with W >= 1, under fair scheduling every run terminates: the job    *)
(* sender, all workers, the closer and the monitor terminate and           *)
(* runDNSTests returns.                                                    *)
C5_Terminates == (workers >= 1) => <>Terminated

(* C6: the completion counter never decreases, goes up by one per job      *)
(* processed, never exceeds N*M, is N*M from the close of results on       *)
(* (W >= 1), and two successive samples of the monitor do not decrease.    *)
C6_Counter ==
    /\ [](/\ completedJobs <= NM
          /\ completedJobs = Sent - Cardinality(WorkersAt({"add"}))
          /\ (workers >= 1 /\ resultsClosed) => completedJobs = NM)
    /\ [][/\ completedJobs' >= completedJobs
          /\ completedJobs' <= completedJobs + 1
          /\ current' >= current]_vars

C6_Witness ==
    /\ resultsClosed /\ workers = 2 /\ completedJobs = 2 /\ current = 1

(* C7: with W >= 1, sorting and the summary start only after the collector *)
(* has received exactly N*M results and seen results closed.               *)
C7_AggregateAfterAll ==
    (workers >= 1 /\ mainPc \in {"sort", "summary", "returned"}) =>
        /\ Len(allResults) = NM
        /\ resultsClosed /\ results = <<>>

C7_Witness == mainPc = "sort" /\ workers = 1 /\ Len(allResults) = 2

(* C8 as claimed: the collector takes no result before results is closed.  *)
C8_NoResultBeforeClose == allResults # <<>> => resultsClosed

(* C8: the collector leaves its loop only after the pool has finished and  *)
(* results is closed; it may take results before that.                     *)
C8_CollectionEndsAfterClose ==
    (workers >= 1 /\ mainPc \notin {"start", "workers", "closer", "collect"}) =>
        /\ resultsClosed /\ closerPc = "exited"
        /\ AllWorkersExited

C8_Witness ==
    mainPc = "stop" /\ workers = 2 /\ Len(collected) = 2 /\ monitorPc = "select"

(* C9: the returned Results are sorted ascending by (Server.IP, Domain),   *)
(* compared as strings.                                                    *)
StrLeq(a, b) == a = b \/ StrLess(a, b)

KeyLeq(x, y) ==
    \/ StrLess(x.Server.IP, y.Server.IP)
    \/ x.Server.IP = y.Server.IP /\ StrLeq(x.Domain, y.Domain)

C9_Sorted ==
    mainPc = "returned" =>
        \A i \in 1..(Len(report.Results) - 1) :
            KeyLeq(report.Results[i], report.Results[i + 1])

C9_Witness ==
    /\ mainPc = "returned" /\ Len(collected) = 2
    /\ ~KeyLeq(collected[1], collected[2])

(* C10: the sort is stable: results with equal (Server.IP, Domain) are     *)
(* returned in the order in which they were collected.                     *)
RECURSIVE InsertStable(_, _)
InsertStable(x, sorted) ==
    IF sorted = <<>> THEN <<x>>
    ELSE IF KeyLeq(Head(sorted), x)
    THEN <<Head(sorted)>> \o InsertStable(x, Tail(sorted))
    ELSE <<x>> \o sorted

RECURSIVE StableSort(_)
StableSort(q) ==
    IF q = <<>> THEN <<>>
    ELSE InsertStable(q[Len(q)], StableSort(SubSeq(q, 1, Len(q) - 1)))

C10_Stable == mainPc = "returned" => report.Results = StableSort(collected)

(* C11: for fixed servers, domains, W and a fixed outcome of every job's   *)
(* probe, the report is the same in every interleaving: Results is the one *)
(* sequence the inputs and the outcomes determine (the results in job      *)
(* order, sorted by key with ties left in that order), and Summary is the  *)
(* summary of that sequence.                                               *)
ResultOfJob(rs, job) == CHOOSE r \in {rs[i] : i \in 1..Len(rs)} : JobOf(r) = job

InJobOrder(rs) == [k \in 1..NM |-> ResultOfJob(rs, CrossSeq[k])]

C11_Deterministic ==
    (workers >= 1 /\ mainPc = "returned") =>
        /\ report.Results = StableSort(InJobOrder(report.Results))
        /\ report.Summary = calculateSummary(InJobOrder(report.Results))

(* The same inputs and outcomes with the tied results in job order. *)
C11_TiesInJobOrder ==
    /\ workers >= 1 /\ mainPc = "returned"
    /\ Len(servers) = 2 /\ Len(domains) = 1
    /\ servers[1].IP = servers[2].IP
    /\ \A i \in 1..2 : report.Results[i].Success
    /\ report.Results = InJobOrder(report.Results)

(* The same inputs and outcomes with the tied results the other way. *)
C11_TiesReversed ==
    /\ workers >= 1 /\ mainPc = "returned"
    /\ Len(servers) = 2 /\ Len(domains) = 1
    /\ servers[1].IP = servers[2].IP
    /\ \A i \in 1..2 : report.Results[i].Success
    /\ report.Results = Reverse(InJobOrder(report.Results))

(* C12: for a run with zero results, calculateSummary divides nothing by   *)
(* zero: the global success rate is not the quotient 0/0, and the report   *)
(* is rendered by the text and by the JSON output without an error.        *)
C12_ZeroResults ==
    (mainPc = "returned" /\ report.Results = <<>>) =>
        /\ report.Summary.SuccessRate # NaN
        /\ \/ written = None
           \/ written.Format \notin {"json", "text"}
           \/ written.OutputFile # ""
           \/ written.Err = NoError

(* C13: at every tick with total = 0, showProgress treats the run as       *)
(* complete: the bar is drawn full, the count of filled cells is never     *)
(* negative or undefined, and the rendering does not panic.                *)
C13_ZeroTotalTick ==
    (totalJobs = 0 /\ current # NoSample) =>
        /\ panicked = NoPanic
        /\ filled = ProgressBarWidth

(* C14: a run with N*M = 0 is a valid run that ends at once: no job is     *)
(* ever enqueued and no probe performed, and the run reaches the state in  *)
(* which all workers have exited, the monitor is stopped and runDNSTests   *)
(* has returned a report with no results, TotalTests = 0 and no category   *)
(* statistics.                                                             *)
C14_Idle == enqueued = 0 /\ jobs = <<>> /\ probed = EmptyBag /\ results = <<>>

C14_EmptyReport ==
    /\ Terminated
    /\ report.Results = <<>>
    /\ report.Summary.TotalTests = 0
    /\ DOMAIN report.Summary.CategoryStats = {}

C14_EmptyRun ==
    (servers = <<>> \/ domains = <<>>) => ([]C14_Idle /\ <>C14_EmptyReport)

(* C15: the monitor is started before any worker and runs for the whole of *)
(* job execution: it is stopped only after all workers have exited, the    *)
(* results channel is closed and the collector has drained it; and the     *)
(* orchestrator does not sort, summarise or return before the monitor has  *)
(* accepted the stop signal.                                               *)
C15_MonitorSpan ==
    /\ monitorPc = "unstarted" =>
          Len(workerPc) = 0 /\ senderPc = "unstarted" /\ probed = EmptyBag
    /\ monitorPc = "returned" =>
          /\ AllWorkersExited
          /\ resultsClosed /\ results = <<>>
          /\ Len(allResults) = Len(collected)
    /\ mainPc \in {"sort", "summary", "returned"} => monitorPc = "returned"

C15_Witness ==
    /\ mainPc = "sort" /\ monitorPc = "returned"
    /\ workers = 2 /\ Len(allResults) = 2 /\ current = 1

(* C16: once the monitor has received the stop signal it has terminated    *)
(* and renders nothing more, also when a tick was pending at that moment:  *)
(* after the send on done no step changes what the monitor has shown, and  *)
(* no step brings the monitor back.                                        *)
C16_SilentAfterStop ==
    [][monitorPc = "returned" =>
          /\ monitorPc' = "returned"
          /\ current' = current /\ filled' = filled
          /\ panicked' = panicked]_vars

(* The stop was accepted while a tick would still have shown something new. *)
C16_Witness ==
    /\ monitorPc = "returned" /\ mainPc = "returned"
    /\ completedJobs = 2 /\ current < completedJobs

(* C17: a run passes through its phases (idle, probing, draining, done) in *)
(* order and reaches done once: no step takes the run back to an earlier   *)
(* phase, once the results channel is closed no probe is started or        *)
(* finished any more, and the report, once produced, never changes.        *)
Phase ==
    IF mainPc = "returned" THEN 3
    ELSE IF resultsClosed THEN 2
    ELSE IF mainPc = "start" THEN 0
    ELSE 1

Probing == WorkersAt({"testDNS", "send", "add"})

RECURSIVE SumOver(_, _, _)
SumOver(stats, categories, field) ==
    IF categories = {} THEN 0
    ELSE LET c == CHOOSE x \in categories : TRUE
         IN  stats[c][field] + SumOver(stats, categories \ {c}, field)

CategorySum(summary, field) ==
    SumOver(summary.CategoryStats, DOMAIN summary.CategoryStats, field)

C18_CategorySums ==
    report # None =>
        \A field \in {"TotalTests", "SuccessfulTests", "FailedTests"} :
            CategorySum(report.Summary, field) = report.Summary[field]

C18_Witness ==
    /\ report # None
    /\ report.Summary.TotalTests = 3
    /\ report.Summary.FailedTests = 1
    /\ Cardinality(DOMAIN report.Summary.CategoryStats) = 2

(* C19: every result carries the server, the domain and the category of    *)
(* the job it comes from: the result a worker holds names the job that     *)
(* worker took, category included, and every result that was sent,         *)
(* collected or returned names a job of the cross product.                 *)
Emitted ==
    results \o allResults \o (IF report = None THEN <<>> ELSE report.Results)

C19_Provenance ==
    /\ \A w \in WorkersAt({"send"}) : JobOf(workerResult[w]) = workerJob[w]
    /\ \A i \in 1..Len(Emitted) :
          \E k \in 1..NM :
             /\ Emitted[i].Server = CrossSeq[k].server
             /\ Emitted[i].Domain = CrossSeq[k].domain.Domain
             /\ Emitted[i].Category = CrossSeq[k].domain.Category

C19_Witness ==
    /\ mainPc = "returned" /\ Len(servers) = 1 /\ Len(report.Results) = 2
    /\ report.Results[1].Category = CategoryAdServer
    /\ report.Results[2].Category = CategoryGeneral

(* C20: every failed probe (an exchange error, no or an empty answer, no A *)
(* record) becomes a result with Success = FALSE and a non-empty Error,    *)
(* and is emitted like any other result; a failure stops no worker: a      *)
(* worker exits only when the jobs channel is closed and empty, and the    *)
(* returned report has a result for every job.                             *)
Held == { workerResult[w] : w \in WorkersAt({"send"}) }

C20_FailureIsResult ==
    /\ \A r \in Held \cup { Emitted[i] : i \in 1..Len(Emitted) } :
          /\ r.Success => r.Error = "" /\ r.IP # ""
          /\ ~r.Success => r.Error # "" /\ r.IP = ""
    /\ \A w \in WorkersAt({"exited"}) : jobsClosed /\ jobs = <<>>
    /\ mainPc = "returned" => Len(report.Results) = NM

C20_Witness ==
    /\ mainPc = "returned" /\ workers = 2 /\ NM = 2
    /\ report.Results[1].Error = "No A record found in response"
    /\ report.Results[2].Success

(* C21: in every summary, globally and for every category,                 *)
(* 0 <= SuccessfulTests <= TotalTests and FailedTests = TotalTests -       *)
(* SuccessfulTests, and where TotalTests > 0 the success rate lies in      *)
(* [0, 100].                                                               *)
CountsInRange(stats) ==
    /\ 0 <= stats.SuccessfulTests
    /\ stats.SuccessfulTests <= stats.TotalTests
    /\ stats.FailedTests = stats.TotalTests - stats.SuccessfulTests
    /\ stats.TotalTests > 0 =>
          /\ stats.SuccessRate.Den > 0
          /\ 0 <= stats.SuccessRate.Num
          /\ stats.SuccessRate.Num <= 100 * stats.SuccessRate.Den

C21_RatesInRange ==
    report # None =>
        /\ CountsInRange(report.Summary)
        /\ \A c \in DOMAIN report.Summary.CategoryStats :
              CountsInRange(report.Summary.CategoryStats[c])

C21_Witness ==
    /\ report # None
    /\ report.Summary.TotalTests = 3
    /\ report.Summary.SuccessfulTests = 1
    /\ Cardinality(DOMAIN report.Summary.CategoryStats) = 3

(* C22: calculateSummary counts as a reference count does:                 *)
(* SuccessfulTests is the number of results with Success, FailedTests the  *)
(* number without, and CategoryStats[c] holds the same counts over the     *)
(* results of category c.                                                  *)
Indices(rs, category, success) ==
    { i \in 1..Len(rs) : rs[i].Category \in category /\ rs[i].Success \in success }

AllCategories(rs) == { rs[i].Category : i \in 1..Len(rs) }

C22_ReferenceCounts ==
    report # None =>
        LET rs == report.Results
            all == AllCategories(rs)
        IN  /\ report.Summary.TotalTests = Cardinality(Indices(rs, all, BOOLEAN))
            /\ report.Summary.SuccessfulTests = Cardinality(Indices(rs, all, {TRUE}))
            /\ report.Summary.FailedTests = Cardinality(Indices(rs, all, {FALSE}))
            /\ \A c \in DOMAIN report.Summary.CategoryStats :
                  LET stats == report.Summary.CategoryStats[c]
                  IN  /\ stats.TotalTests = Cardinality(Indices(rs, {c}, BOOLEAN))
                      /\ stats.SuccessfulTests = Cardinality(Indices(rs, {c}, {TRUE}))
                      /\ stats.FailedTests = Cardinality(Indices(rs, {c}, {FALSE}))

(* Two General results, one failed and one successful, and one other. *)
C22_Witness ==
    /\ report # None
    /\ Len(report.Results) = 3
    /\ CategoryGeneral \in DOMAIN report.Summary.CategoryStats
    /\ report.Summary.CategoryStats[CategoryGeneral].TotalTests = 2
    /\ report.Summary.CategoryStats[CategoryGeneral].SuccessRate = [Num |-> 50, Den |-> 1]

(* C23: calculateSummary depends only on the multiset of the results:      *)
(* applied again to the same list, or to the list with two neighbouring    *)
(* results exchanged (and so to any permutation), it gives the same        *)
(* Summary; and the call leaves the list it was given as it was.           *)
Swap(rs, i, j) == [rs EXCEPT ![i] = rs[j], ![j] = rs[i]]

C23_SameForPermutations ==
    /\ calculateSummary(allResults) = report'.Summary
    /\ \A i \in 1..(Len(allResults) - 1) :
          calculateSummary(Swap(allResults, i, i + 1)) = report'.Summary

C23_InputKept ==
    /\ allResults' = allResults
    /\ report'.Results = allResults

(* checked at the step that produces the report *)
C23_MultisetOnly ==
    [][(report = None /\ report' # None) =>
          C23_SameForPermutations /\ C23_InputKept]_vars

C23_Witness ==
    /\ report # None /\ Len(report.Results) = 3
    /\ ~report.Results[1].Success
    /\ report.Results[2].Success /\ report.Results[2].ResponseTime = 2
    /\ report.Results[3].Success /\ report.Results[3].ResponseTime = 1

(* C24: a category is a key of Summary.CategoryStats if and only if at     *)
(* least one result has it, and every entry has TotalTests >= 1, so the    *)
(* category rate never has a zero divisor.                                 *)
C24_ObservedCategories ==
    report # None =>
        /\ \A c \in {CategoryGeneral, CategoryAdServer, CategoryOther, CategoryAdult} :
              c \in DOMAIN report.Summary.CategoryStats
                  <=> \E i \in 1..Len(report.Results) : report.Results[i].Category = c
        /\ \A c \in DOMAIN report.Summary.CategoryStats :
              /\ \E i \in 1..Len(report.Results) : report.Results[i].Category = c
              /\ report.Summary.CategoryStats[c].TotalTests >= 1
              /\ report.Summary.CategoryStats[c].SuccessRate # NaN

C24_Witness ==
    /\ report # None /\ Len(report.Results) = 2
    /\ DOMAIN report.Summary.CategoryStats = {CategoryAdult}
    /\ report.Summary.SuccessfulTests = 0

(* C25: AverageResponseTime is taken over the successful results only: it  *)
(* is the truncated quotient of the sum of their response times by their   *)
(* number, and 0 when no result is successful.                             *)
RECURSIVE SumOfTimes(_, _)
SumOfTimes(rs, idx) ==
    IF idx = {} THEN 0
    ELSE LET i == CHOOSE x \in idx : TRUE
         IN  rs[i].ResponseTime + SumOfTimes(rs, idx \ {i})

C25_AverageOfSuccesses ==
    report # None =>
        LET rs == report.Results
            ok == { i \in 1..Len(rs) : rs[i].Success }
        IN  report.Summary.AverageResponseTime =
                IF ok = {} THEN 0 ELSE SumOfTimes(rs, ok) \div Cardinality(ok)

(* Successes of 1 and 2 time units (average 1, truncated) and a failure. *)
C25_Witness ==
    /\ report # None /\ Len(report.Results) = 3
    /\ report.Summary.SuccessfulTests = 2
    /\ SumOfTimes(report.Results, 1..3) = 5
    /\ report.Summary.AverageResponseTime = 1

(* No result is successful and the failures took time. *)
C25_NoSuccess ==
    /\ report # None /\ Len(report.Results) = 2
    /\ report.Summary.SuccessfulTests = 0
    /\ report.Summary.AverageResponseTime = 0

(* C26: the sender enqueues exactly N*M jobs in server-major order, and    *)
(* the workers take them in that order: the jobs channel always holds the  *)
(* next jobs of the cross product, in order, and the k-th job taken by any *)
(* worker is the k-th job of the cross product.                            *)
Taken == enqueued - Len(jobs)

C26_QueueInOrder ==
    /\ enqueued <= NM
    /\ senderPc = "exited" => enqueued = NM
    /\ jobs = SubSeq(CrossSeq, Taken + 1, enqueued)

C26_TakeInOrder ==
    \A w \in DOMAIN workerPc :
        (workerPc[w] = "range" /\ workerPc'[w] = "testDNS") =>
            workerJob'[w] = CrossSeq[Taken + 1]

C26_ServerMajorFIFO == []C26_QueueInOrder /\ [][C26_TakeInOrder]_vars

(* All four jobs were taken; the third one is the second server's first. *)
C26_Witness ==
    /\ NM = 4 /\ Taken = 4 /\ workers = 2
    /\ \E w \in DOMAIN workerPc :
          /\ workerPc[w] = "testDNS"
          /\ workerJob[w] = [server |-> servers[2], domain |-> domains[2]]
    /\ Len(allResults) = 1

(* C27: both channels are buffered for N*M elements, so neither the job    *)
(* sender nor a worker ever waits to send: whenever the sender has a job   *)
(* to send the jobs channel has room, whenever a worker has a result to    *)
(* send the results channel has room, whatever the collector has done so   *)
(* far, and neither channel ever holds more than N*M elements.             *)
C27_SendsNeverBlock ==
    /\ Len(jobs) <= NM /\ Len(results) <= NM
    /\ (senderPc = "loop" /\ enqueued < loopTurns) => Len(jobs) < jobsCap
    /\ WorkersAt({"send"}) # {} => Len(results) < resultsCap

(* A worker sends its second result while nothing has been collected. *)
C27_Witness ==
    /\ NM = 2 /\ workers = 1
    /\ mainPc \in {"workers", "closer", "collect"} /\ allResults = <<>>
    /\ Len(results) = 1 /\ WorkersAt({"send"}) # {}

(* C28: the monitor does not influence job execution: a step of            *)
(* showProgress leaves the completion counter, both channels, the workers  *)
(* and the collected results as they were, and no worker step is enabled   *)
(* or disabled by it.                                                      *)
MonitorStep ==
    \/ monitorVars' # monitorVars
    \/ panicked' = "strings: negative Repeat count" /\ panicked = NoPanic

WorkerCanStep(w) == ENABLED Worker(w)

C28_Frame ==
    MonitorStep =>
        /\ UNCHANGED <<completedJobs, channels, workerVars, wg, allResults, collected>>
        /\ \A w \in DOMAIN workerPc : WorkerCanStep(w) <=> WorkerCanStep(w)'

C28_MonitorIsPassive == [][C28_Frame]_vars

(* C29: at every tick the ETA is defined only when completed > 0: then it  *)
(* is (elapsed / completed) * (total - completed) with the truncating      *)
(* division, and 0 when completed = total; with completed = 0 no numeric   *)
(* ETA is given.                                                           *)
C29_ETADefined ==
    (current > 0) =>
        /\ \E elapsed \in elapsedTimes :
              eta = (elapsed \div current) * (totalJobs - current)
        /\ current = totalJobs => eta = 0

C29_ETA ==
    /\ C29_ETADefined
    /\ current = 0 => eta \notin Nat

(* C30: at every tick with total > 0 the sampled count is within           *)
(* 0..total, the number of filled cells is floor(ProgressBarWidth *        *)
(* completed / total) and within 0..ProgressBarWidth, filled and empty     *)
(* cells add up to ProgressBarWidth, and no repeat count is negative (the  *)
(* rendering does not panic).                                              *)
C30_BarWidth ==
    (totalJobs > 0 /\ current # NoSample) =>
        /\ current \in 0..totalJobs
        /\ filled * totalJobs <= ProgressBarWidth * current
        /\ ProgressBarWidth * current < (filled + 1) * totalJobs
        /\ filled \in 0..ProgressBarWidth
        /\ empty \in 0..ProgressBarWidth
        /\ filled + empty = ProgressBarWidth
        /\ panicked = NoPanic

(* Two of three jobs done: 26 cells of 40, where 26.67 was to be floored. *)
C30_Witness ==
    totalJobs = 3 /\ current = 2 /\ filled = 26 /\ empty = 14

(* C31: before the progress display stops it has shown the final state of  *)
(* the run: in every run with W >= 1 and total > 0, when the monitor has   *)
(* accepted the stop signal, a line with completed = total has been        *)
(* rendered.  The sampled value never decreases, so that line has been     *)
(* rendered exactly if the last sample is total.                           *)
C31_FinalRender ==
    (workers >= 1 /\ totalJobs > 0 /\ monitorPc = "returned") =>
        current = totalJobs

(* The monitor was stopped before its first tick. *)
C31_NothingRendered ==
    /\ workers >= 1 /\ totalJobs = 2 /\ mainPc = "returned"
    /\ current = NoSample

(***************************************************************************)
(* main: the -workers and -timeout flags are parsed as integers and handed  *)
(* to runDNSTests as they are; flag.IntVar accepts any integer.            *)
(***************************************************************************)
WorkerFlags == {-1, 0, 1}

TimeoutFlags == {-1, 0, DefaultTimeout}

FlagInit ==
    /\ servers = <<ServerPool[1]>>
    /\ domains \in Excerpts(DomainPool, MaxDomains)
    /\ Len(servers) * Len(domains) <= MaxJobs
    /\ workers \in WorkerFlags
    /\ exchanges = RunResponses
    /\ elapsedTimes = RunElapsed
    /\ timeout \in TimeoutFlags
    /\ domainsFile = NoFile
    /\ Entered

FlagSpec == FlagInit /\ [][Next]_vars

FlagFairSpec == FlagSpec /\ Fairness

(* C32: the core only ever runs with a worker count of one or more and a   *)
(* timeout above zero, main having validated the two flags before the      *)
(* call.                                                                   *)
C32_ValidatedArguments ==
    monitorPc # "unstarted" => workers >= 1 /\ timeout > 0

(* C33: outputResults accepts the formats text and json and no other: any  *)
(* other format gives the error 'unsupported format' with nothing written  *)
(* to the file or to stdout, and an accepted format with an output path    *)
(* is written to that file (as far as the file system allows) and not to   *)
(* stdout.                                                                 *)
C33_Formats ==
    written # None =>
        /\ written.Format \notin {"text", "json"} =>
              /\ written.Err = "unsupported format"
              /\ written.Stdout = None /\ written.File = None
        /\ (written.Format \in {"text", "json"} /\ written.OutputFile # "") =>
              /\ written.Stdout = None
              /\ written.Err \in WriteErrors
              /\ written.Err = NoError => written.File # None

(* The same for every report that json can encode. *)
C33_FormatsOfEncodable ==
    (written # None /\ ~(written.Format = "json" /\ HasNaN(report.Summary))) =>
        /\ written.Format \notin {"text", "json"} =>
              /\ written.Err = "unsupported format"
              /\ written.Stdout = None /\ written.File = None
        /\ (written.Format \in {"text", "json"} /\ written.OutputFile # "") =>
              /\ written.Stdout = None
              /\ written.Err \in WriteErrors
              /\ written.Err = NoError =>
                    /\ written.File # None
                    /\ written.File.Encoding = written.Format
                    /\ written.File.Results = report.Results

(***************************************************************************)
(* main: loading the domain list.  A string is the sequence of its         *)
(* characters and a file the sequence of its lines.                        *)
(***************************************************************************)
MaxLines == 2

Space == {" ", "\t"}

UpperCase == <<"A", "B", "C", "D", "E", "F", "G", "H", "I", "J", "K", "L", "M",
               "N", "O", "P", "Q", "R", "S", "T", "U", "V", "W", "X", "Y", "Z">>

LowerCase == <<"a", "b", "c", "d", "e", "f", "g", "h", "i", "j", "k", "l", "m",
               "n", "o", "p", "q", "r", "s", "t", "u", "v", "w", "x", "y", "z">>

(* Faulty variant: the field is compared as it was written. *)
ToLowerNot(s) == s

(* strings.ToLower *)
ToLower(s) ==
    [i \in 1..Len(s) |->
        IF \E k \in 1..Len(UpperCase) : UpperCase[k] = s[i]
        THEN LowerCase[CHOOSE k \in 1..Len(UpperCase) : UpperCase[k] = s[i]]
        ELSE s[i]]

(* strings.TrimSpace *)
RECURSIVE TrimSpace(_)
TrimSpace(s) ==
    IF s # <<>> /\ s[1] \in Space THEN TrimSpace(Tail(s))
    ELSE IF s # <<>> /\ s[Len(s)] \in Space
         THEN TrimSpace(SubSeq(s, 1, Len(s) - 1))
         ELSE s

(* strings.HasPrefix *)
HasPrefix(s, prefix) ==
    Len(s) >= Len(prefix) /\ SubSeq(s, 1, Len(prefix)) = prefix

(* strings.Fields *)
RECURSIVE Fields(_)
Fields(s) ==
    IF s = <<>> THEN <<>>
    ELSE IF s[1] \in Space THEN Fields(Tail(s))
    ELSE LET ends == {i \in 1..Len(s) : s[i] \in Space} \cup {Len(s) + 1}
             end == CHOOSE i \in ends : \A j \in ends : i <= j
         IN  <<SubSeq(s, 1, end - 1)>> \o Fields(SubSeq(s, end, Len(s)))

(* The body of the scanner loop for one line: the list with the line's     *)
(* entry appended, or the list as it was.                                  *)
ScanLine(loaded, text) ==
    LET trimmed == TrimSpace(text)
        parts == Fields(trimmed)
        lower == ToLower(parts[2])
        category ==
            IF Len(parts) > 1
            THEN CASE lower = <<"g", "e", "n", "e", "r", "a", "l">> -> CategoryGeneral
                   [] lower = <<"a", "d", "-", "s", "e", "r", "v", "e", "r">> -> CategoryAdServer
                   [] lower = <<"a", "d", "s", "e", "r", "v", "e", "r">> -> CategoryAdServer
                   [] lower = <<"a", "d", "u", "l", "t">> -> CategoryAdult
                   [] lower = <<"o", "t", "h", "e", "r">> -> CategoryOther
                   [] OTHER -> CategoryOther
            ELSE CategoryOther
    IN  IF trimmed = <<>> \/ HasPrefix(trimmed, <<"#">>) THEN loaded
        ELSE IF Len(parts) = 0 THEN loaded
        ELSE Append(loaded, DomainCategory(parts[1], category))

RECURSIVE ScanFrom(_, _)
ScanFrom(loaded, rest) ==
    IF rest = <<>> THEN loaded
    ELSE ScanFrom(ScanLine(loaded, Head(rest)), Tail(rest))

loadDomainsFromFile(file) == ScanFrom(<<>>, file.Lines)

(* The lines a domains file is made of: *)
(*   ''                    *)
(*   ' \t'                 *)
(*   '# g.co General'      *)
(*   ' #x.xx Adult'        *)
(*   'g.co'                *)
(*   'g.co General'        *)
(*   '\tg.co  GENERAL '    *)
(*   'ad.net Ad-server'    *)
(*   'ad.net AdServer'     *)
(*   'x.xx\tADULT'         *)
(*   'u.org Other'         *)
(*   'n.org News'          *)
(*   'g.co General Adult'  *)
(*   't.io # Adult'        *)
LinePool ==
    << <<>>,
       <<" ", "\t">>,
       <<"#", " ", "g", ".", "c", "o", " ", "G", "e", "n", "e", "r", "a", "l">>,
       <<" ", "#", "x", ".", "x", "x", " ", "A", "d", "u", "l", "t">>,
       <<"g", ".", "c", "o">>,
       <<"g", ".", "c", "o", " ", "G", "e", "n", "e", "r", "a", "l">>,
       <<"\t", "g", ".", "c", "o", " ", " ", "G", "E", "N", "E", "R", "A", "L", " ">>,
       <<"a", "d", ".", "n", "e", "t", " ", "A", "d", "-", "s", "e", "r", "v", "e", "r">>,
       <<"a", "d", ".", "n", "e", "t", " ", "A", "d", "S", "e", "r", "v", "e", "r">>,
       <<"x", ".", "x", "x", "\t", "A", "D", "U", "L", "T">>,
       <<"u", ".", "o", "r", "g", " ", "O", "t", "h", "e", "r">>,
       <<"n", ".", "o", "r", "g", " ", "N", "e", "w", "s">>,
       <<"g", ".", "c", "o", " ", "G", "e", "n", "e", "r", "a", "l", " ", "A", "d", "u", "l", "t">>,
       <<"t", ".", "i", "o", " ", "#", " ", "A", "d", "u", "l", "t">> >>

DomainFiles ==
    { [Name |-> "domains.txt", Lines |-> [k \in DOMAIN ix |-> LinePool[ix[k]]]] :
        ix \in UNION { [1..n -> 1..Len(LinePool)] : n \in 0..MaxLines } }

(* os.Open and the scanner succeed or fail as the file system decides. *)
ReadErrors == {NoError, "read error"}

(* main: if *domainsFile != "" { loadDomainsFromFile ... os.Exit(1) on an   *)
(* error } else { domains = defaultDomains }                               *)
LoadDomains ==
    /\ Running /\ mainPc = "load"
    /\ IF domainsFile.Name # ""
       THEN \E err \in ReadErrors :
               IF err # NoError
               THEN mainPc' = "exit" /\ UNCHANGED domains
               ELSE mainPc' = "start" /\ domains' = loadDomainsFromFile(domainsFile)
       ELSE mainPc' = "start" /\ domains' = DomainPool
    /\ UNCHANGED <<servers, workers, exchanges, elapsedTimes, timeout, domainsFile,
                   written, channels, completedJobs, wg, workerVars, senderPc,
                   enqueued, closerPc, monitorVars, started, allResults, collected,
                   report, probed, panicked>>

LoadInit ==
    /\ servers = <<ServerPool[1]>>
    /\ domains = <<>>
    /\ workers = 1
    /\ exchanges = RunResponses
    /\ elapsedTimes = RunElapsed
    /\ timeout = DefaultTimeout
    /\ domainsFile \in DomainFiles \cup {NoFile}
    /\ mainPc = "load"
    /\ jobs = <<>>
    /\ jobsClosed = FALSE
    /\ results = <<>>
    /\ resultsClosed = FALSE
    /\ completedJobs = 0
    /\ wg = 0
    /\ started = 0
    /\ workerPc = <<>>
    /\ workerJob = <<>>
    /\ workerResult = <<>>
    /\ senderPc = "unstarted"
    /\ enqueued = 0
    /\ closerPc = "unstarted"
    /\ monitorPc = "unstarted"
    /\ current = NoSample
    /\ filled = 0
    /\ empty = 0
    /\ eta = 0
    /\ line = None
    /\ allResults = <<>>
    /\ collected = <<>>
    /\ report = None
    /\ probed = EmptyBag
    /\ panicked = NoPanic
    /\ written = None

LoadNext == LoadDomains

LoadSpec == LoadInit /\ [][LoadNext]_vars

(* The words of a line, read off its positions: a word starts where a      *)
(* character that is no white space follows white space or the line start, *)
(* and runs to the next white space.                                       *)
WordStarts(text) ==
    { i \in 1..Len(text) : text[i] \notin Space /\ (i = 1 \/ text[i - 1] \in Space) }

WordFrom(text, i) ==
    SubSeq(text, i,
           CHOOSE j \in i..Len(text) :
               /\ \A k \in i..j : text[k] \notin Space
               /\ (j = Len(text) \/ text[j + 1] \in Space))

NthWord(text, n) ==
    WordFrom(text, CHOOSE i \in WordStarts(text) :
                       Cardinality({ j \in WordStarts(text) : j < i }) = n - 1)

(* Two characters that are the same letter in either case. *)
SameLetter(a, b) ==
    a = b \/ \E k \in 1..Len(UpperCase) : {a, b} = {UpperCase[k], LowerCase[k]}

Spells(word, name) ==
    Len(word) = Len(name) /\ \A i \in 1..Len(word) : SameLetter(word[i], name[i])

CategoryNames ==
    { [Spelling |-> <<"g", "e", "n", "e", "r", "a", "l">>, Category |-> CategoryGeneral],
      [Spelling |-> <<"a", "d", "-", "s", "e", "r", "v", "e", "r">>, Category |-> CategoryAdServer],
      [Spelling |-> <<"a", "d", "s", "e", "r", "v", "e", "r">>, Category |-> CategoryAdServer],
      [Spelling |-> <<"a", "d", "u", "l", "t">>, Category |-> CategoryAdult],
      [Spelling |-> <<"o", "t", "h", "e", "r">>, Category |-> CategoryOther] }

(* The category the second word of a line stands for. *)
CategoryOfLine(text) ==
    IF Cardinality(WordStarts(text)) >= 2
          /\ \E n \in CategoryNames : Spells(NthWord(text, 2), n.Spelling)
    THEN (CHOOSE n \in CategoryNames : Spells(NthWord(text, 2), n.Spelling)).Category
    ELSE CategoryOther

(* The lines that stand for a domain: not blank, and not a comment. *)
IsEntry(text) ==
    WordStarts(text) # {} /\ NthWord(text, 1)[1] # "#"

(* C34: every DomainCategory loaded from a domains file carries one of the *)
(* four categories; the second field is matched without regard to case,    *)
(* adserver standing for Ad-server as well; a missing or unknown category  *)
(* gives Other; blank lines and lines starting with # give no entry; the   *)
(* entries are in the order of the file.                                   *)
C34_LoadedDomains ==
    (mainPc = "start" /\ domainsFile # NoFile) =>
        LET entries == SelectSeq(domainsFile.Lines, IsEntry)
        IN  /\ Len(domains) = Len(entries)
            /\ \A i \in 1..Len(domains) :
                  /\ domains[i].Category \in
                        {CategoryGeneral, CategoryAdServer, CategoryOther, CategoryAdult}
                  /\ domains[i].Domain = NthWord(entries[i], 1)
                  /\ domains[i].Category = CategoryOfLine(entries[i])

(* A file of two entries, AdServer and an unknown category, is loaded. *)
C34_Witness ==
    /\ mainPc = "start" /\ domainsFile # NoFile
    /\ domainsFile.Lines = <<LinePool[12], LinePool[9]>>
    /\ domains = << DomainCategory(<<"n", ".", "o", "r", "g">>, CategoryOther),
                    DomainCategory(<<"a", "d", ".", "n", "e", "t">>, CategoryAdServer) >>

(* A comment between two entries leaves no entry, upper case is read. *)
C34_CommentSkipped ==
    /\ mainPc = "start" /\ domainsFile # NoFile
    /\ domainsFile.Lines = <<LinePool[3], LinePool[7]>>
    /\ domains = << DomainCategory(<<"g", ".", "c", "o">>, CategoryGeneral) >>

(* The rendering r of the duration d: in seconds below one minute, and     *)
(* from one minute on in minutes and seconds, the seconds within 0..59,    *)
(* both together the whole seconds of d.                                   *)
Rendering(r, d) ==
    /\ d < 60 * Second => r.Form = "s"
    /\ d >= 60 * Second =>
          /\ r.Form = "ms"
          /\ r.Seconds \in 0..59
          /\ r.Minutes * 60 + r.Seconds = d \div Second

(* C35: formatDuration gives a duration below one minute in seconds, and a *)
(* duration of one minute or more, one minute itself included, in minutes  *)
(* and seconds with 0 <= seconds <= 59 and minutes * 60 + seconds the      *)
(* whole seconds of the duration.                                          *)
C35_FormatDuration ==
    line # None =>
        /\ Rendering(line.ETA, eta)
        /\ \E elapsed \in elapsedTimes :
              /\ eta = ETA(current, totalJobs, elapsed)
              /\ Rendering(line.Elapsed, elapsed)

(* An ETA of exactly one minute was printed as 1m0s. *)
C35_Witness ==
    /\ line # None /\ eta = 60 * Second
    /\ line.ETA = [Form |-> "ms", Minutes |-> 1, Seconds |-> 0, Tenths |-> 0]

(* 59.96 s are printed as 60.0s, in seconds. *)
C35_RoundedUp ==
    /\ line # None /\ eta = 2998
    /\ line.ETA = [Form |-> "s", Minutes |-> 0, Seconds |-> 60, Tenths |-> 0]

(* C36: at every moment of a run, completedJobs <= results sent <= jobs    *)
(* taken by workers <= jobs enqueued <= N*M, and results collected <=      *)
(* results sent; a worker sends its result before it raises the counter,   *)
(* so the counter is behind the sent results by the workers between the    *)
(* two steps, and the sent results behind the taken jobs by the workers    *)
(* that hold a job whose result is not sent yet.                           *)
C36_CounterChain ==
    /\ completedJobs <= Sent
    /\ Sent <= Taken
    /\ Taken <= enqueued
    /\ enqueued <= NM
    /\ Len(allResults) <= Sent
    /\ Sent - completedJobs = Cardinality(WorkersAt({"add"}))
    /\ Taken - Sent = Cardinality(WorkersAt({"testDNS", "send"}))

(* One worker has sent and not yet counted, the other is still probing,    *)
(* and main has collected the one result.                                  *)
C36_Witness ==
    /\ completedJobs = 0 /\ Sent = 1 /\ Taken = 2 /\ enqueued = 2
    /\ Len(allResults) = 1
    /\ WorkersAt({"add"}) # {} /\ WorkersAt({"testDNS"}) # {}

(* C37: called with W <= 0 and N*M > 0, runDNSTests does not deadlock: no  *)
(* worker is started, the closer finds the wait group at zero and closes   *)
(* the results channel, the job sender is never blocked on the way to      *)
(* N*M jobs in the buffer and the close of the channel, the monitor is     *)
(* stopped, and the function returns a report with zero results and        *)
(* TotalTests = 0.                                                         *)
C37_SenderFree ==
    /\ (senderPc = "loop" /\ enqueued < NM) => (Len(jobs) < jobsCap /\ ~jobsClosed)
    /\ senderPc = "exited" => (Len(jobs) = NM /\ jobsClosed)

C37_ZeroWorkersReturn ==
    (workers <= 0 /\ servers # <<>> /\ domains # <<>>) =>
        /\ [](workerPc = <<>> /\ panicked = NoPanic)
        /\ [](closerPc = "wait" => wg = 0)
        /\ []C37_SenderFree
        /\ [](report # None =>
                  (report.Results = <<>> /\ report.Summary.TotalTests = 0))
        /\ <>(mainPc = "returned" /\ monitorPc = "returned" /\ resultsClosed
                 /\ report # None)

(* With W = -1 and two jobs the function has returned zero results, the    *)
(* two jobs lying in the closed channel.                                   *)
C37_Witness ==
    /\ workers = -1 /\ NM = 2
    /\ mainPc = "returned" /\ monitorPc = "returned"
    /\ report.Results = <<>> /\ report.Summary.TotalTests = 0
    /\ senderPc = "exited" /\ Len(jobs) = 2 /\ jobsClosed /\ resultsClosed

(***************************************************************************)
(* Runs in which every exchange ends the same way, one run per way; beside *)
(* the ways of Responses, an answer of two A records and an error that     *)
(* comes together with a response.                                         *)
(***************************************************************************)
ProbeResponses ==
    Responses \cup
    { Response(NoError, FALSE, <<RR("A", "93.184.216.34"), RR("A", "93.184.216.35")>>),
      Response("dns: id mismatch", FALSE, <<RR("A", "93.184.216.34")>>) }

ProbeInit ==
    /\ servers = <<ServerPool[1]>>
    /\ domains \in Excerpts(DomainPool, MaxDomains)
    /\ Len(servers) * Len(domains) <= MaxJobs
    /\ workers \in 1..MaxWorkers
    /\ exchanges \in { {response} : response \in ProbeResponses }
    /\ elapsedTimes = RunElapsed
    /\ timeout = DefaultTimeout
    /\ domainsFile = NoFile
    /\ Entered

ProbeSpec == ProbeInit /\ [][Next]_vars

(* The results that exist: those the workers hold after testDNS, those in  *)
(* the channel and those collected.                                        *)
ProbeResults ==
    { workerResult[w] : w \in WorkersAt({"send", "add"}) }
        \cup { results[i] : i \in 1..Len(results) }
        \cup { allResults[i] : i \in 1..Len(allResults) }

(* C38: every TestResult of testDNS is well formed.  Success is true       *)
(* exactly when the exchange gave an A record, and then IP is the first A  *)
(* record and Error is empty; Success is false exactly when Error is set   *)
(* (No answer received for a nil or empty answer, No A record found in     *)
(* response for an answer without A record, else the text of the exchange  *)
(* error), and then IP is empty; Server, Domain and ResponseTime are set   *)
(* in every case.                                                          *)
C38_WellFormed ==
    LET response == CHOOSE x \in exchanges : TRUE
        records == { i \in 1..Len(response.Answer) : response.Answer[i].Type = "A" }
        found == response.Err = NoError /\ ~response.Nil /\ records # {}
    IN  Cardinality(exchanges) = 1 =>
        /\ \A r \in ProbeResults :
              /\ r.Success = found
              /\ r.Success = (r.Error = "")
              /\ r.Success =>
                    /\ r.IP # ""
                    /\ r.IP = response.Answer[CHOOSE i \in records :
                                                 \A j \in records : i <= j].A
              /\ ~r.Success =>
                    /\ r.IP = ""
                    /\ response.Err # NoError => r.Error = response.Err
                    /\ (response.Err = NoError
                          /\ (response.Nil \/ response.Answer = <<>>)) =>
                            r.Error = "No answer received"
                    /\ (response.Err = NoError /\ ~response.Nil
                          /\ response.Answer # <<>>) =>
                            r.Error = "No A record found in response"
              /\ \E i \in 1..Len(servers) : r.Server = servers[i]
              /\ \E i \in 1..Len(domains) : r.Domain = domains[i].Domain
              /\ r.ResponseTime \in RunResponseTimes
        /\ \A w \in WorkersAt({"send", "add"}) :
              /\ workerResult[w].Server = workerJob[w].server
              /\ workerResult[w].Domain = workerJob[w].domain.Domain

(* An answer of two A records was returned with the first one as IP. *)
C38_Witness ==
    /\ exchanges = { Response(NoError, FALSE, <<RR("A", "93.184.216.34"),
                                                 RR("A", "93.184.216.35")>>) }
    /\ mainPc = "returned" /\ Len(allResults) = 2
    /\ \A i \in 1..2 :
          /\ allResults[i].Success /\ allResults[i].IP = "93.184.216.34"
          /\ allResults[i].Error = ""

(* An exchange error that came with a response gave a failure. *)
C38_ErrorWithResponse ==
    /\ exchanges = { Response("dns: id mismatch", FALSE, <<RR("A", "93.184.216.34")>>) }
    /\ mainPc = "returned" /\ Len(allResults) = 1
    /\ ~allResults[1].Success /\ allResults[1].IP = ""
    /\ allResults[1].Error = "dns: id mismatch"

====
